---------------------------- MODULE Spec2Model ----------------------------
(***************************************************************************)
(* Model of pymaltego/messages.py: the MaltegoMessage envelope, the        *)
(* TransformRequest decoder and the TransformResponse encoder/decoder.     *)
(*                                                                         *)
(* Python values are tagged records: None, str (a sequence of one-char     *)
(* strings, so that strip() and int() can be computed), int.  An lxml      *)
(* element is a record with a tag, an attribute mapping, an optional text  *)
(* and an ordered sequence of children.  A call either returns a value or  *)
(* raises an exception; both are recorded in the variable outcome.         *)
(***************************************************************************)
EXTENDS Integers, Sequences, FiniteSets, TLC

VARIABLES
    pc,       \* position of the modelled caller
    cls,      \* class whose from_node is called / whose instance is rendered
    args,     \* arguments of TransformResponse.__init__
    self,     \* the TransformResponse instance being rendered
    node,     \* the argument of from_node (a root element, or a non-element)
    inner,    \* local `node` of from_node after the envelope check
    outcome   \* result of the last from_node call

vars == <<pc, cls, args, self, node, inner, outcome>>

----------------------------------------------------------------------------
(* Bounds of the model *)

MaxEntities == 2
MaxUIMessages == 2
MaxRequestEntities == 1
MaxFields == 2

----------------------------------------------------------------------------
(* Python values *)

PyNone == [type |-> "NoneType"]
PyStr(chars) == [type |-> "str", chars |-> chars]
PyInt(n) == [type |-> "int", value |-> n]
PyList(items) == [type |-> "list", items |-> items]

DEFAULT_SOFT_LIMIT == 500
DEFAULT_HARD_LIMIT == 10000

Return(v) == [ok |-> TRUE, value |-> v]
Raise(exc, msg) == [ok |-> FALSE, exc |-> exc, msg |-> msg]

NoOutcome == [ok |-> FALSE, exc |-> "NotCalled", msg |-> ""]
NoNode == [kind |-> "unset"]
NoObject == [class |-> "NoObject"]
NoArgs == [given |-> FALSE]

SeqsUpTo(S, n) == UNION {[1..k -> S] : k \in 0..n}

----------------------------------------------------------------------------
(* str.strip() and int() *)

Whitespace == {" ", "\t", "\n"}

RECURSIVE LStrip(_)
LStrip(s) ==
    IF s # <<>> /\ Head(s) \in Whitespace THEN LStrip(Tail(s)) ELSE s

RECURSIVE RStrip(_)
RStrip(s) ==
    IF s # <<>> /\ s[Len(s)] \in Whitespace
    THEN RStrip(SubSeq(s, 1, Len(s) - 1))
    ELSE s

Strip(s) == RStrip(LStrip(s))

Digits == {"0", "1", "2", "3", "4", "5", "6", "7", "8", "9"}

DigitValue(c) ==
    CASE c = "0" -> 0 [] c = "1" -> 1 [] c = "2" -> 2 [] c = "3" -> 3
      [] c = "4" -> 4 [] c = "5" -> 5 [] c = "6" -> 6 [] c = "7" -> 7
      [] c = "8" -> 8 [] c = "9" -> 9

RECURSIVE DecimalValue(_, _)
DecimalValue(s, acc) ==
    IF s = <<>> THEN acc
    ELSE DecimalValue(Tail(s), 10 * acc + DigitValue(Head(s)))

\* Faulty variant of ToInt: characters that are not digits are skipped.
ToIntLenient(v) ==
    IF v.type = "int" THEN Return(v.value)
    ELSE LET s == Strip(v.chars)
             signed == s # <<>> /\ Head(s) \in {"+", "-"}
             body == IF signed THEN Tail(s) ELSE s
             ds == SelectSeq(body, LAMBDA c : c \in Digits)
             n == DecimalValue(ds, 0)
         IN  Return(IF signed /\ Head(s) = "-" THEN 0 - n ELSE n)

\* int(x): an int is returned unchanged; a str is stripped, may carry a sign,
\* and must then be a non-empty run of decimal digits, else ValueError.
ToInt(v) ==
    IF v.type = "int" THEN Return(v.value)
    ELSE LET s == Strip(v.chars)
             signed == s # <<>> /\ Head(s) \in {"+", "-"}
             body == IF signed THEN Tail(s) ELSE s
         IN  IF body # <<>> /\ \A i \in 1..Len(body) : body[i] \in Digits
             THEN LET n == DecimalValue(body, 0)
                  IN  Return(IF signed /\ Head(s) = "-" THEN 0 - n ELSE n)
             ELSE Raise("ValueError", "invalid literal for int()")

----------------------------------------------------------------------------
(* Document nodes *)

Element(tag, attrib, text, children) ==
    [kind |-> "element", tag |-> tag, attrib |-> attrib,
     text |-> text, children |-> children]

NoAttrib == << >>

IsElement(n) == n.kind = "element"

\* element.find(tag): the first direct child with that tag, or None
Find(n, tag) ==
    LET hits == {i \in 1..Len(n.children) : n.children[i].tag = tag}
    IN  IF hits = {} THEN PyNone
        ELSE n.children[CHOOSE i \in hits : \A j \in hits : i <= j]

\* attrib.get(key, default)
AttribGet(n, key, default) ==
    IF key \in DOMAIN n.attrib THEN n.attrib[key] ELSE default

----------------------------------------------------------------------------
(* Collaborators: entities.Entity and entities.UIMessage *)

Entity(type) == [class |-> "Entity", type |-> type]
UIMessage(type) == [class |-> "UIMessage", type |-> type]

EntityToNode(e) ==
    Element("Entity", [Type |-> PyStr(e.type)], PyNone, <<>>)

EntityFromNode(n) ==
    IF n.tag = "Entity" /\ "Type" \in DOMAIN n.attrib
    THEN Return(Entity(n.attrib["Type"].chars))
    ELSE Raise("CollaboratorError", "Entity.from_node")

UIMessageToNode(m) ==
    Element("UIMessage", [MessageType |-> PyStr(m.type)], PyNone, <<>>)

UIMessageFromNode(n) ==
    IF n.tag = "UIMessage" /\ "MessageType" \in DOMAIN n.attrib
    THEN Return(UIMessage(n.attrib["MessageType"].chars))
    ELSE Raise("CollaboratorError", "UIMessage.from_node")

----------------------------------------------------------------------------
(* class MaltegoMessage *)

MessageTag(name) == "Maltego" \o name \o "Message"

\* MaltegoMessage.__init__
MaltegoMessageInit(name) ==
    [class |-> name,
     entities |-> <<>>,
     fields |-> << >>,
     soft_limit |-> DEFAULT_SOFT_LIMIT,
     hard_limit |-> DEFAULT_HARD_LIMIT,
     ui_messages |-> <<>>]

\* Faulty variant of MaltegoMessageFromNode: the tag comparison is missing.
EnvelopeFirstChildUnchecked(name, n) ==
    IF ~IsElement(n)
    THEN Raise("ValueError", "Is not an etree.Element instance.")
    ELSE IF n.children = <<>>
    THEN Raise("IndexError", "list index out of range")
    ELSE Return(n.children[1])

\* MaltegoMessage.from_node(cls, node)
MaltegoMessageFromNode(name, n) ==
    IF ~IsElement(n)
    THEN Raise("ValueError", "Is not an etree.Element instance.")
    ELSE IF n.children = <<>>
    THEN Raise("IndexError", "list index out of range")
    ELSE LET child == n.children[1]
         IN  IF child.tag # MessageTag(name)
             THEN Raise("MalformedMessageError",
                        child.tag \o " is invalid MaltegoMessage Type.")
             ELSE Return(child)

\* MaltegoMessage.to_node(self)
MaltegoMessageToNode(obj) ==
    Element(MessageTag(obj.class), NoAttrib, PyNone,
            IF obj.ui_messages # <<>>
            THEN << Element("UIMessages", NoAttrib, PyNone,
                            [i \in 1..Len(obj.ui_messages) |->
                                 UIMessageToNode(obj.ui_messages[i])]) >>
            ELSE <<>>)

----------------------------------------------------------------------------
(* Loops over child elements *)

RECURSIVE EntitiesLoop(_, _)
EntitiesLoop(children, acc) ==
    IF children = <<>> THEN Return(acc)
    ELSE LET r == EntityFromNode(Head(children))
         IN  IF ~r.ok THEN r
             ELSE EntitiesLoop(Tail(children), Append(acc, r.value))

RECURSIVE UIMessagesLoop(_, _)
UIMessagesLoop(children, acc) ==
    IF children = <<>> THEN Return(acc)
    ELSE LET r == UIMessageFromNode(Head(children))
         IN  IF ~r.ok THEN r
             ELSE UIMessagesLoop(Tail(children), Append(acc, r.value))

----------------------------------------------------------------------------
(* class TransformRequest *)

\* Faulty variant of EntityNodes: a missing Entities child counts as empty.
EntityNodesOrEmpty(n) ==
    LET entity_nodes == Find(n, "Entities")
    IN  IF entity_nodes = PyNone THEN Return(<<>>)
        ELSE Return(entity_nodes.children)

\* entity_nodes = node.find('Entities'), with the check that it is not None
EntityNodes(n) ==
    LET entity_nodes == Find(n, "Entities")
    IN  IF entity_nodes = PyNone
        THEN Raise("MalformedMessageError", "Request requires Entities tag.")
        ELSE Return(entity_nodes.children)

\* Faulty variant of FieldValue: the text is kept as it is.
FieldValueUnstripped(field) ==
    field.text

\* value = field.text and field.text.strip()
FieldValue(field) ==
    IF field.text = PyNone THEN PyNone
    ELSE IF field.text.chars = <<>> THEN field.text
    ELSE PyStr(Strip(field.text.chars))

\* Faulty variant of DictSet: an existing key keeps its value.
DictSetDefault(d, k, v) ==
    [x \in DOMAIN d \cup {k} |-> IF x \in DOMAIN d THEN d[x] ELSE v]

\* d[k] = v
DictSet(d, k, v) ==
    [x \in DOMAIN d \cup {k} |-> IF x = k THEN v ELSE d[x]]

RECURSIVE FieldsLoop(_, _)
FieldsLoop(children, acc) ==
    IF children = <<>> THEN Return(acc)
    ELSE LET field == Head(children)
         IN  IF "Name" \notin DOMAIN field.attrib
             THEN Raise("MalformedMessageError", "No Name attribute in Field")
             ELSE FieldsLoop(Tail(children),
                             DictSet(acc, field.attrib["Name"], FieldValue(field)))

\* fields = node.find('TransformFields') and the loop over its children
DecodeFields(n, initial) ==
    LET fields == Find(n, "TransformFields")
    IN  IF fields # PyNone THEN FieldsLoop(fields.children, initial)
        ELSE Return(initial)

\* limit = node.find('Limits') and the two int(...) assignments, in order
DecodeLimits(n, instance) ==
    LET limit == Find(n, "Limits")
    IN  IF limit = PyNone
        THEN Return([soft_limit |-> instance.soft_limit,
                     hard_limit |-> instance.hard_limit])
        ELSE LET soft == ToInt(AttribGet(limit, "SoftLimit",
                                         PyInt(DEFAULT_SOFT_LIMIT)))
                 hard == ToInt(AttribGet(limit, "HardLimit",
                                         PyInt(DEFAULT_SOFT_LIMIT)))
             IN  IF ~soft.ok THEN soft
                 ELSE IF ~hard.ok THEN hard
                 ELSE Return([soft_limit |-> soft.value,
                              hard_limit |-> hard.value])

\* TransformRequest.from_node, after the envelope check returned `n`
TransformRequestDecode(n) ==
    LET nodes == EntityNodes(n)
    IN  IF ~nodes.ok THEN nodes
        ELSE
        LET instance == MaltegoMessageInit("TransformRequest")
            entities == EntitiesLoop(nodes.value, instance.entities)
        IN  IF ~entities.ok THEN entities
            ELSE
            LET fields == DecodeFields(n, instance.fields)
            IN  IF ~fields.ok THEN fields
                ELSE
                LET limits == DecodeLimits(n, instance)
                IN  IF ~limits.ok THEN limits
                    ELSE Return([instance EXCEPT
                                   !.entities = entities.value,
                                   !.fields = fields.value,
                                   !.soft_limit = limits.value.soft_limit,
                                   !.hard_limit = limits.value.hard_limit])

----------------------------------------------------------------------------
(* class TransformResponse *)

\* TransformResponse.__init__(self, entities, ui_messages=None)
TransformResponseInit(entities, ui_messages) ==
    [MaltegoMessageInit("TransformResponse") EXCEPT
        !.entities = entities,
        !.ui_messages = IF ui_messages.type = "NoneType" \/ ui_messages.items = <<>>
                        THEN <<>>
                        ELSE ui_messages.items]

\* Faulty variant of UIMessageNodes: a missing UIMessages child counts as empty.
UIMessageNodesOrEmpty(n) ==
    LET message_nodes == Find(n, "UIMessages")
    IN  IF message_nodes = PyNone THEN Return(<<>>)
        ELSE Return(message_nodes.children)

\* message_nodes = node.find('UIMessages'); message_nodes.getchildren()
UIMessageNodes(n) ==
    LET message_nodes == Find(n, "UIMessages")
    IN  IF message_nodes = PyNone
        THEN Raise("AttributeError",
                   "'NoneType' object has no attribute 'getchildren'")
        ELSE Return(message_nodes.children)

\* TransformResponse.from_node, after the envelope check returned `n`
TransformResponseDecode(n) ==
    LET nodes == EntityNodes(n)
    IN  IF ~nodes.ok THEN nodes
        ELSE
        LET entities == EntitiesLoop(nodes.value, <<>>)
        IN  IF ~entities.ok THEN entities
            ELSE
            LET message_nodes == UIMessageNodes(n)
            IN  IF ~message_nodes.ok THEN message_nodes
                ELSE
                LET ui_messages == UIMessagesLoop(message_nodes.value, <<>>)
                IN  IF ~ui_messages.ok THEN ui_messages
                    ELSE Return(TransformResponseInit(
                                    entities.value, PyList(ui_messages.value)))

\* Faulty variant of EntitiesNode: the entities are appended in reverse order.
EntitiesNodeReversed(obj) ==
    Element("Entities", NoAttrib, PyNone,
            [i \in 1..Len(obj.entities) |->
                 EntityToNode(obj.entities[Len(obj.entities) + 1 - i])])

\* entities_node = Node('Entities', parent=node) and the append loop
EntitiesNode(obj) ==
    Element("Entities", NoAttrib, PyNone,
            [i \in 1..Len(obj.entities) |-> EntityToNode(obj.entities[i])])

\* TransformResponse.to_node(self)
TransformResponseToNode(obj) ==
    LET base == MaltegoMessageToNode(obj)
    IN  [base EXCEPT !.children = Append(base.children, EntitiesNode(obj))]

\* the tree MaltegoMessage.to_xml(self) serializes
ToXmlTree(obj) ==
    Element("MaltegoMessage", NoAttrib, PyNone, << TransformResponseToNode(obj) >>)

----------------------------------------------------------------------------
(* Inputs: the documents handed to from_node and the constructor arguments *)

EntityTypes == {<<"E", "1">>, <<"E", "2">>}
UIMessageTypes == {<<"M", "1">>, <<"M", "2">>}

EntityObjects == {Entity(t) : t \in EntityTypes}
UIMessageObjects == {UIMessage(t) : t \in UIMessageTypes}

\* an element the Entity / UIMessage collaborator rejects
BadEntityNode == Element("Entity", NoAttrib, PyNone, <<>>)
BadUIMessageNode == Element("UIMessage", NoAttrib, PyNone, <<>>)

FieldNames == {<<"x">>, <<"y">>}
FieldTexts == {PyNone, PyStr(<<>>), PyStr(<<" ", "a", "\n">>)}
\* a Field without a Name attribute
NamelessField == Element("Field", NoAttrib, PyStr(<<"a">>), <<>>)
FieldNodes ==
    {NamelessField}
        \cup {Element("Field", [Name |-> PyStr(nm)], t, <<>>) :
                  nm \in FieldNames, t \in FieldTexts}

NumericLimitTexts == {<<"1", "0">>, <<" ", "-", "7">>}
NonNumericLimitTexts == {<<"1", "x">>}
LimitTexts == NumericLimitTexts \cup NonNumericLimitTexts
LimitAttribs ==
    UNION {[keys -> {PyStr(t) : t \in LimitTexts}] :
               keys \in SUBSET {"SoftLimit", "HardLimit"}}
LimitsNodes == {Element("Limits", a, PyNone, <<>>) : a \in LimitAttribs}

\* zero or one child with the given tag
OptionalChild(tag, childLists) ==
    {<<>>} \cup {<<Element(tag, NoAttrib, PyNone, cs)>> : cs \in childLists}

RequestEntityLists ==
    SeqsUpTo({EntityToNode(Entity(<<"E", "1">>)), BadEntityNode},
             MaxRequestEntities)

RequestBodies ==
    {e \o f \o l :
        e \in OptionalChild("Entities", RequestEntityLists),
        f \in OptionalChild("TransformFields", SeqsUpTo(FieldNodes, MaxFields)),
        l \in {<<>>} \cup {<<n>> : n \in LimitsNodes}}

\* bodies put under an inner tag that is not the request's
OtherTagBodies ==
    {e \o f \o l :
        e \in OptionalChild("Entities", RequestEntityLists),
        f \in OptionalChild("TransformFields", SeqsUpTo(FieldNodes, 1)),
        l \in {<<>>}
              \cup {<<Element("Limits", [SoftLimit |-> PyStr(t)], PyNone, <<>>)>> :
                        t \in LimitTexts}}

ResponseBodies ==
    {u \o e :
        u \in OptionalChild("UIMessages",
                 SeqsUpTo({UIMessageToNode(m) : m \in UIMessageObjects}
                              \cup {BadUIMessageNode}, MaxUIMessages)),
        e \in OptionalChild("Entities",
                 SeqsUpTo({EntityToNode(x) : x \in EntityObjects}
                              \cup {BadEntityNode}, MaxEntities))}

Root(tag, body) ==
    Element("MaltegoMessage", NoAttrib, PyNone,
            <<Element(tag, NoAttrib, PyNone, body)>>)

\* a str passed where an element is expected; roots without children; a root
\* with another tag around a well-formed inner element
DegenerateRoots(name) ==
    {[kind |-> "str"],
     Element("MaltegoMessage", NoAttrib, PyNone, <<>>),
     Element("Other", NoAttrib, PyNone, <<>>),
     Element("Other", NoAttrib, PyNone,
             <<Element(MessageTag(name), NoAttrib, PyNone,
                       <<Element("UIMessages", NoAttrib, PyNone, <<>>),
                         Element("Entities", NoAttrib, PyNone, <<>>)>>)>>)}

OtherTags(name) ==
    {"MaltegoWrongMessage", "MaltegoTransformRequestMessage",
     "MaltegoTransformResponseMessage"} \ {MessageTag(name)}

RequestRoots ==
    {Root(MessageTag("TransformRequest"), b) : b \in RequestBodies}
        \cup {Root(t, b) : t \in OtherTags("TransformRequest"),
                           b \in OtherTagBodies}
        \cup DegenerateRoots("TransformRequest")

ResponseRoots ==
    {Root(MessageTag("TransformResponse"), b) : b \in ResponseBodies}
        \cup {Root(t, b) : t \in OtherTags("TransformResponse"),
                           b \in ResponseBodies}
        \cup DegenerateRoots("TransformResponse")

ResponseArgs ==
    [given : {TRUE},
     entities : SeqsUpTo(EntityObjects, MaxEntities),
     ui_messages : {PyNone} \cup {PyList(ms) :
                        ms \in SeqsUpTo(UIMessageObjects, MaxUIMessages)}]

----------------------------------------------------------------------------
(* The state machine: a caller decodes a document, or builds a response,   *)
(* renders it and decodes the rendered document.                           *)

Init ==
    /\ inner = NoNode
    /\ outcome = NoOutcome
    /\ self = NoObject
    /\ \/ /\ pc = "start"
          /\ cls = "TransformRequest"
          /\ node \in RequestRoots
          /\ args = NoArgs
       \/ /\ pc = "start"
          /\ cls = "TransformResponse"
          /\ node \in ResponseRoots
          /\ args = NoArgs
       \/ /\ pc = "new"
          /\ cls = "TransformResponse"
          /\ node = NoNode
          /\ args \in ResponseArgs

\* TransformRequest.from_node(node)
TransformRequestFromNode ==
    /\ pc = "start"
    /\ cls = "TransformRequest"
    /\ LET envelope == MaltegoMessageFromNode(cls, node)
       IN  /\ inner' = IF envelope.ok THEN envelope.value ELSE NoNode
           /\ outcome' = IF envelope.ok
                         THEN TransformRequestDecode(envelope.value)
                         ELSE envelope
    /\ pc' = "done"
    /\ UNCHANGED <<cls, args, self, node>>

\* TransformResponse.from_node(node)
TransformResponseFromNode ==
    /\ pc = "start"
    /\ cls = "TransformResponse"
    /\ LET envelope == MaltegoMessageFromNode(cls, node)
       IN  /\ inner' = IF envelope.ok THEN envelope.value ELSE NoNode
           /\ outcome' = IF envelope.ok
                         THEN TransformResponseDecode(envelope.value)
                         ELSE envelope
    /\ pc' = "done"
    /\ UNCHANGED <<cls, args, self, node>>

\* TransformResponse(entities, ui_messages)
NewTransformResponse ==
    /\ pc = "new"
    /\ self' = TransformResponseInit(args.entities, args.ui_messages)
    /\ pc' = "built"
    /\ UNCHANGED <<cls, args, node, inner, outcome>>

\* self.to_xml(): the document that is serialized
ToXml ==
    /\ pc = "built"
    /\ node' = ToXmlTree(self)
    /\ pc' = "start"
    /\ UNCHANGED <<cls, args, self, inner, outcome>>

Next ==
    \/ TransformRequestFromNode
    \/ TransformResponseFromNode
    \/ NewTransformResponse
    \/ ToXml

Spec == Init /\ [][Next]_vars

----------------------------------------------------------------------------
(* Vocabulary of the properties, stated on documents and not through the   *)
(* decoder's own operators                                                 *)

RequestDone == pc = "done" /\ cls = "TransformRequest"
ResponseDone == pc = "done" /\ cls = "TransformResponse"

\* the response was built by the caller and `node` is its rendered document
Rendered == self # NoObject /\ node # NoNode

HasChildren(n) == IsElement(n) /\ Len(n.children) > 0

ChildrenTagged(n, tag) == SelectSeq(n.children, LAMBDA c : c.tag = tag)
HasChild(n, tag) == ChildrenTagged(n, tag) # <<>>
\* children of the first child of n tagged tag
Under(n, tag) == ChildrenTagged(n, tag)[1].children

ExpectedTag ==
    IF cls = "TransformRequest" THEN "MaltegoTransformRequestMessage"
    ELSE "MaltegoTransformResponseMessage"

EnvelopePassed == inner # NoNode

EntitiesDecodable(n) ==
    /\ HasChild(n, "Entities")
    /\ \A i \in 1..Len(Under(n, "Entities")) :
           EntityFromNode(Under(n, "Entities")[i]).ok

FieldsNamed(n) ==
    HasChild(n, "TransformFields") =>
        \A i \in 1..Len(Under(n, "TransformFields")) :
            "Name" \in DOMAIN Under(n, "TransformFields")[i].attrib

\* r is s without its leading and trailing whitespace
IsTrimOf(r, s) ==
    \E i \in 0..Len(s) :
        /\ i + Len(r) <= Len(s)
        /\ SubSeq(s, i + 1, i + Len(r)) = r
        /\ \A k \in 1..Len(s) :
               (k <= i \/ k > i + Len(r)) => s[k] \in Whitespace
        /\ r # <<>> => (r[1] \notin Whitespace /\ r[Len(r)] \notin Whitespace)

\* the integer a limit attribute of the input set denotes
DenotedInt(chars) ==
    CASE chars = <<"1", "0">> -> 10
      [] chars = <<" ", "-", "7">> -> 0 - 7

BadLimit(n, key) ==
    /\ HasChild(n, "Limits")
    /\ key \in DOMAIN ChildrenTagged(n, "Limits")[1].attrib
    /\ ChildrenTagged(n, "Limits")[1].attrib[key].chars \in NonNumericLimitTexts

ExpectedLimit(n, key, default) ==
    IF HasChild(n, "Limits") /\ key \in DOMAIN ChildrenTagged(n, "Limits")[1].attrib
    THEN DenotedInt(ChildrenTagged(n, "Limits")[1].attrib[key].chars)
    ELSE default

NumericError == Raise("ValueError", "invalid literal for int()")

----------------------------------------------------------------------------
(* Properties *)

\* C1: decoding the document rendered from a TransformResponse succeeds and
\* yields the same entity and UI-message sequences, for any N >= 0, M >= 0.
C1_RoundTrip ==
    (ResponseDone /\ Rendered) =>
        /\ outcome.ok
        /\ outcome.value.entities = self.entities
        /\ outcome.value.ui_messages = self.ui_messages

\* C2: a decoded request has soft_limit = the SoftLimit attribute's integer
\* or 500 when it is missing, and hard_limit = the HardLimit attribute's
\* integer or 10000 when it is missing.
C2_LimitsDecoding ==
    (RequestDone /\ outcome.ok) =>
        /\ outcome.value.soft_limit = ExpectedLimit(inner, "SoftLimit", 500)
        /\ outcome.value.hard_limit = ExpectedLimit(inner, "HardLimit", 10000)

\* C3: a request document whose MaltegoTransformRequestMessage element has
\* no Entities child is rejected with MalformedMessageError by the Entities
\* check, whatever its fields and limits are.
C3_MissingEntitiesRejected ==
    (/\ RequestDone
     /\ HasChildren(node)
     /\ node.children[1].tag = "MaltegoTransformRequestMessage"
     /\ ~HasChild(node.children[1], "Entities"))
        => outcome = Raise("MalformedMessageError",
                           "Request requires Entities tag.")

C3_Witness ==
    /\ RequestDone
    /\ HasChildren(node)
    /\ node.children[1].tag = "MaltegoTransformRequestMessage"
    /\ ~HasChild(node.children[1], "Entities")
    /\ HasChild(node.children[1], "TransformFields")
    /\ ~FieldsNamed(node.children[1])
    /\ BadLimit(node.children[1], "SoftLimit")
    /\ ~outcome.ok
    /\ outcome.exc = "MalformedMessageError"

\* C4: a first child whose tag is not Maltego<K>Message is rejected with
\* MalformedMessageError under a decode of kind K; a first child with that
\* tag passes and is the node handed to the decoder of K.
C4_EnvelopeTagCheck ==
    (pc = "done" /\ HasChildren(node)) =>
        /\ node.children[1].tag # ExpectedTag =>
               /\ ~outcome.ok
               /\ outcome.exc = "MalformedMessageError"
               /\ outcome.msg =
                      node.children[1].tag \o " is invalid MaltegoMessage Type."
               /\ ~EnvelopePassed
        /\ node.children[1].tag = ExpectedTag =>
               /\ EnvelopePassed
               /\ inner = node.children[1]
               /\ outcome.ok \/ outcome.msg
                      # ExpectedTag \o " is invalid MaltegoMessage Type."

C4_Witness ==
    /\ RequestDone
    /\ HasChildren(node)
    /\ node.children[1].tag = "MaltegoTransformResponseMessage"
    /\ HasChild(node.children[1], "Entities")
    /\ ~outcome.ok
    /\ outcome.exc = "MalformedMessageError"

\* C5: once the entities of a request are decoded, a TransformFields child
\* without Name makes the decode fail with MalformedMessageError; otherwise
\* every Name is a key of fields, and the value kept for a Field that no
\* later Field renames is its text without leading and trailing whitespace,
\* None or the empty string when it has no or empty text.
C5_FieldsDecoding ==
    (/\ RequestDone
     /\ EnvelopePassed
     /\ EntitiesDecodable(inner)
     /\ HasChild(inner, "TransformFields")) =>
        LET F == Under(inner, "TransformFields")
        IN  /\ ~FieldsNamed(inner) =>
                   outcome = Raise("MalformedMessageError",
                                   "No Name attribute in Field")
            /\ FieldsNamed(inner) => (outcome.ok \/ outcome = NumericError)
            /\ (FieldsNamed(inner) /\ outcome.ok) =>
                   \A i \in 1..Len(F) :
                       /\ F[i].attrib["Name"] \in DOMAIN outcome.value.fields
                       /\ (\A j \in (i + 1)..Len(F) :
                               F[j].attrib["Name"] # F[i].attrib["Name"]) =>
                              LET v == outcome.value.fields[F[i].attrib["Name"]]
                              IN  IF F[i].text = PyNone THEN v = PyNone
                                  ELSE /\ v.type = "str"
                                       /\ IsTrimOf(v.chars, F[i].text.chars)

C5_Witness ==
    /\ RequestDone
    /\ outcome.ok
    /\ HasChild(inner, "TransformFields")
    /\ Under(inner, "TransformFields") =
           << Element("Field", [Name |-> PyStr(<<"x">>)],
                      PyStr(<<" ", "a", "\n">>), <<>>),
              Element("Field", [Name |-> PyStr(<<"y">>)], PyNone, <<>>) >>
    /\ outcome.value.fields[PyStr(<<"x">>)] = PyStr(<<"a">>)
    /\ outcome.value.fields[PyStr(<<"y">>)] = PyNone

\* C6: the rendered document is a MaltegoMessage root with one child tagged
\* MaltegoTransformResponseMessage, which holds exactly one Entities child
\* with the rendered entities in order, and a UIMessages child with the
\* rendered messages in order exactly when ui_messages is not empty.
C6_ResponseShape ==
    Rendered =>
        /\ node.tag = "MaltegoMessage"
        /\ Len(node.children) = 1
        /\ LET msg == node.children[1]
               E == ChildrenTagged(msg, "Entities")
               U == ChildrenTagged(msg, "UIMessages")
           IN  /\ msg.tag = "MaltegoTransformResponseMessage"
               /\ Len(E) = 1
               /\ Len(E[1].children) = Len(self.entities)
               /\ \A i \in 1..Len(self.entities) :
                      E[1].children[i] = EntityToNode(self.entities[i])
               /\ Len(U) = (IF self.ui_messages = <<>> THEN 0 ELSE 1)
               /\ Len(msg.children) = Len(E) + Len(U)
               /\ U # <<>> =>
                      /\ Len(U[1].children) = Len(self.ui_messages)
                      /\ \A i \in 1..Len(self.ui_messages) :
                             U[1].children[i] =
                                 UIMessageToNode(self.ui_messages[i])

C6_Witness ==
    /\ Rendered
    /\ self.entities = <<Entity(<<"E", "1">>), Entity(<<"E", "2">>)>>
    /\ self.ui_messages = <<>>
    /\ ~HasChild(node.children[1], "UIMessages")
    /\ Len(Under(node.children[1], "Entities")) = 2

\* C7: a response document with the right inner tag and decodable Entities
\* but no UIMessages child fails with AttributeError (a None dereference),
\* not MalformedMessageError; with a UIMessages child, its children are
\* decoded in order into ui_messages.
C7_UIMessagesRequired ==
    (ResponseDone /\ EnvelopePassed /\ EntitiesDecodable(inner)) =>
        /\ ~HasChild(inner, "UIMessages") =>
               /\ ~outcome.ok
               /\ outcome.exc = "AttributeError"
        /\ (/\ HasChild(inner, "UIMessages")
            /\ \A i \in 1..Len(Under(inner, "UIMessages")) :
                   UIMessageFromNode(Under(inner, "UIMessages")[i]).ok) =>
               /\ outcome.ok
               /\ Len(outcome.value.ui_messages) = Len(Under(inner, "UIMessages"))
               /\ \A i \in 1..Len(Under(inner, "UIMessages")) :
                      outcome.value.ui_messages[i] =
                          UIMessage(Under(inner, "UIMessages")[i]
                                        .attrib["MessageType"].chars)

C7_Witness ==
    /\ ResponseDone
    /\ EnvelopePassed
    /\ EntitiesDecodable(inner)
    /\ ~HasChild(inner, "UIMessages")
    /\ ~outcome.ok
    /\ outcome.exc = "AttributeError"

\* C8: the keys of the decoded fields are the distinct Names of the Field
\* children, and the value under a Name is that of the last Field with it.
C8_LastFieldWins ==
    (RequestDone /\ outcome.ok) =>
        LET F == IF HasChild(inner, "TransformFields")
                 THEN Under(inner, "TransformFields") ELSE <<>>
        IN  /\ DOMAIN outcome.value.fields =
                   {F[i].attrib["Name"] : i \in 1..Len(F)}
            /\ \A i \in 1..Len(F) :
                   (\A j \in (i + 1)..Len(F) :
                        F[j].attrib["Name"] # F[i].attrib["Name"]) =>
                       outcome.value.fields[F[i].attrib["Name"]]
                           = FieldValue(F[i])

C8_Witness ==
    /\ RequestDone
    /\ outcome.ok
    /\ HasChild(inner, "TransformFields")
    /\ Under(inner, "TransformFields") =
           << Element("Field", [Name |-> PyStr(<<"x">>)],
                      PyStr(<<" ", "a", "\n">>), <<>>),
              Element("Field", [Name |-> PyStr(<<"x">>)], PyNone, <<>>) >>
    /\ DOMAIN outcome.value.fields = {PyStr(<<"x">>)}
    /\ outcome.value.fields[PyStr(<<"x">>)] = PyNone

\* C9: with a valid envelope, decodable Entities and named fields, a
\* SoftLimit or HardLimit attribute that is not an integer makes the decode
\* fail with int()'s ValueError; that error never comes from a missing
\* attribute or a missing Limits element.
C9_NonNumericLimits ==
    RequestDone =>
        /\ (/\ EnvelopePassed
            /\ EntitiesDecodable(inner)
            /\ FieldsNamed(inner)
            /\ BadLimit(inner, "SoftLimit") \/ BadLimit(inner, "HardLimit"))
               => outcome = NumericError
        /\ outcome = NumericError =>
               BadLimit(inner, "SoftLimit") \/ BadLimit(inner, "HardLimit")

C9_Witness ==
    /\ RequestDone
    /\ EnvelopePassed
    /\ EntitiesDecodable(inner)
    /\ Len(Under(inner, "Entities")) > 0
    /\ HasChild(inner, "TransformFields")
    /\ Len(Under(inner, "TransformFields")) > 0
    /\ BadLimit(inner, "HardLimit")
    /\ "SoftLimit" \notin DOMAIN ChildrenTagged(inner, "Limits")[1].attrib
    /\ outcome = NumericError

\* C10: a request decode returns a fully populated request or fails with an
\* error of the taxonomy: ValueError (invalid input, bad number),
\* MalformedMessageError, or a collaborator's error.
C10_ClosedTaxonomy ==
    RequestDone =>
        \/ /\ outcome.ok
           /\ DOMAIN outcome.value = DOMAIN MaltegoMessageInit("TransformRequest")
        \/ /\ ~outcome.ok
           /\ outcome.exc \in {"ValueError", "MalformedMessageError",
                               "CollaboratorError"}

=============================================================================
